---- MODULE Spec2Model ----
(***************************************************************************)
(* Model of include/bitmanip/wbits.hpp: the word-array shift primitives    *)
(* wide::leftShift / wide::rightShift and the fixed-width vector Bits<N>.  *)
(*                                                                         *)
(* A word is modelled as the set of its set bit positions, a subset of     *)
(* 0 .. typeBits-1 (position 0 is the least significant bit).  This keeps  *)
(* the real 64-bit width of uintmax_t.  A word array is a function from    *)
(* the source's indices 0 .. count-1 to words, least significant first.    *)
(***************************************************************************)
EXTENDS Integers, Sequences, FiniteSets, TLC

VARIABLES
    sizeofInt,   \* wide::*Shift<Int>: sizeof(Int) of the instantiation
    count,       \* wide::*Shift: the count argument
    dest,        \* wide::*Shift: the caller's array dest[0 .. count-1]
    calls,       \* the calls made on dest so far: <<[op, shift, before]>>
    amounts,     \* amounts of the single-word shifts/rotates of the last call
    BITS,        \* Bits<BITS>: the template argument
    constructed, \* Bits: whether Bits(valueType) has run
    data_,       \* Bits::data_
    ret,         \* the Bits value returned by the last binary operator
    hasRet,      \* whether ret holds a returned value
    ops          \* operations run on the object: <<[op, value, shift, before]>>

wideVars == <<sizeofInt, count, dest, calls, amounts>>
bitsVars == <<BITS, constructed, data_, ret, hasRet, ops>>
vars == <<sizeofInt, count, dest, calls, amounts,
          BITS, constructed, data_, ret, hasRet, ops>>

\* ------------------------------------------------------------------ bounds
MaxCount == 2      \* largest count passed to the word-array primitives
MaxCalls == 2      \* longest sequence of shift calls on one array
MaxOps == 2        \* longest sequence of operations on one Bits object
MaxOver == 1       \* how far past count*typeBits a shift amount may go

\* ------------------------------------------------------- single-word layer
\* constexpr std::size_t typeBits = sizeof(Int) * 8;
typeBits(sz) == sz * 8

\* Width in which an expression over Int operands is evaluated: operands
\* narrower than int are promoted to (32-bit, signed) int, wider ones keep
\* their own unsigned type.
exprBits(sz) == IF sz < 4 THEN 32 ELSE sz * 8

AllOnes(w) == 0 .. (w - 1)

\* x << s evaluated in w bits
ShL(x, s, w) == {b + s : b \in x} \cap AllOnes(w)

\* x >> s on an unsigned (or non-negative) operand
ShR(x, s) == {b - s : b \in {c \in x : c >= s}}

\* x >> s as evaluated in the expression type: an arithmetic shift when the
\* operand was promoted to signed int and is negative, logical otherwise.
ShRExpr(x, s, sz) ==
    LET w == exprBits(sz)
    IN  IF sz < 4 /\ (w - 1) \in x
        THEN ShR(x, s) \cup {b \in AllOnes(w) : b >= w - s}
        ELSE ShR(x, s)

\* ~x evaluated in w bits
Not(x, w) == AllOnes(w) \ x

Xor(x, y) == (x \ y) \cup (y \ x)

\* conversion of an expression value back to Int
Trunc(x, sz) == x \cap AllOnes(typeBits(sz))

\* bitrot.hpp: circular rotation of one word by s < typeBits bits
rotateLeft(x, s, sz) == {(b + s) % typeBits(sz) : b \in x}
rotateRight(x, s, sz) == {(b + typeBits(sz) - s) % typeBits(sz) : b \in x}

\* static_cast<unsigned char>(shift)
ToUChar(s) == s % 256

ZeroArray(n) == [i \in 0 .. (n - 1) |-> {}]

\* ---------------------------------------------------------- wide::leftShift
\* one pass of the whole-word loop body without the trailing dest[0] = 0
moveUpKeepLow(d, n) == [i \in 0 .. (n - 1) |-> IF i = 0 THEN d[0] ELSE d[i - 1]]

\* body of the whole-word loop: dest[i] = dest[i-1] for i = count-1 .. 1,
\* then dest[0] = 0
moveUp(d, n) == [i \in 0 .. (n - 1) |-> IF i = 0 THEN {} ELSE d[i - 1]]

RECURSIVE wholeWordLeft(_, _, _, _)
wholeWordLeft(d, shift, n, sz) ==
    IF shift >= typeBits(sz)
    THEN wholeWordLeft(moveUp(d, n), shift - typeBits(sz), n, sz)
    ELSE [dest |-> d, shift |-> shift]

\* Int carryMask = ~(~Int{0} << shift);
carryMaskLeft(shift, sz) ==
    LET w == exprBits(sz)
    IN  Trunc(Not(ShL(Not({}, w), shift, w), w), sz)

\* for (i = count - 1; i-- > 0;) { rotate, keep, carry }
RECURSIVE carryLoopLeft(_, _, _, _, _)
carryLoopLeft(d, i, shift, carryMask, sz) ==
    IF i < 0 THEN d
    ELSE LET shifted == rotateLeft(d[i], ToUChar(shift), sz)
             keep == Trunc(shifted \cap Not(carryMask, exprBits(sz)), sz)
             carry == shifted \cap carryMask
         IN  carryLoopLeft([d EXCEPT ![i] = keep, ![i + 1] = carry],
                           i - 1, shift, carryMask, sz)

\* the sub-word phase with the two statements after the early return
subWordLeft(d, shift, n, sz) ==
    LET carryMask == carryMaskLeft(shift, sz)
        top == [d EXCEPT ![n - 1] = ShL(d[n - 1], shift, typeBits(sz))]
    IN  [dest |-> carryLoopLeft(top, n - 2, shift, carryMask, sz),
         amounts |-> {shift} \cup (IF n >= 2 THEN {ToUChar(shift)} ELSE {})]

\* leftShift without the "if (shift == 0) return;"
leftShiftNoEarlyReturn(d, shift, n, sz) ==
    LET ww == wholeWordLeft(d, shift, n, sz)
    IN  subWordLeft(ww.dest, ww.shift, n, sz)

leftShift(d, shift, n, sz) ==
    LET ww == wholeWordLeft(d, shift, n, sz)
    IN  IF ww.shift = 0
        THEN [dest |-> ww.dest, amounts |-> {}]
        ELSE subWordLeft(ww.dest, ww.shift, n, sz)

\* --------------------------------------------------------- wide::rightShift
\* body of the whole-word loop: dest[i] = dest[i+1] for i = 0 .. count-2,
\* then dest[count-1] = 0
moveDown(d, n) == [i \in 0 .. (n - 1) |-> IF i = n - 1 THEN {} ELSE d[i + 1]]

RECURSIVE wholeWordRight(_, _, _, _)
wholeWordRight(d, shift, n, sz) ==
    IF shift >= typeBits(sz)
    THEN wholeWordRight(moveDown(d, n), shift - typeBits(sz), n, sz)
    ELSE [dest |-> d, shift |-> shift]

\* Int carryMask = ~(~Int{0} >> shift);
carryMaskRight(shift, sz) ==
    LET w == exprBits(sz)
    IN  Trunc(Not(ShRExpr(Not({}, w), shift, sz), w), sz)

\* for (i = 1; i < count; ++i) { rotate, keep, carry }
RECURSIVE carryLoopRight(_, _, _, _, _, _)
carryLoopRight(d, i, shift, carryMask, n, sz) ==
    IF i >= n THEN d
    ELSE LET shifted == rotateRight(d[i], ToUChar(shift), sz)
             keep == Trunc(shifted \cap Not(carryMask, exprBits(sz)), sz)
             carry == shifted \cap carryMask
         IN  carryLoopRight([d EXCEPT ![i] = keep, ![i - 1] = carry],
                            i + 1, shift, carryMask, n, sz)

subWordRight(d, shift, n, sz) ==
    LET carryMask == carryMaskRight(shift, sz)
        low == [d EXCEPT ![0] = ShR(d[0], shift)]
    IN  [dest |-> carryLoopRight(low, 1, shift, carryMask, n, sz),
         amounts |-> {shift} \cup (IF n >= 2 THEN {ToUChar(shift)} ELSE {})]

rightShift(d, shift, n, sz) ==
    LET ww == wholeWordRight(d, shift, n, sz)
    IN  IF ww.shift = 0
        THEN [dest |-> ww.dest, amounts |-> {}]
        ELSE subWordRight(ww.dest, ww.shift, n, sz)

\* ------------------------------------------------------------ class Bits
\* using valueType = uintmax_t;
SizeofValueType == 8

\* intdiv.hpp: integer division rounding up
divCeil(a, b) == (a + b - 1) \div b

\* static constexpr std::size_t size_ = divCeil(BITS, sizeof(valueType) * 8);
size_(B) == divCeil(B, SizeofValueType * 8)

\* static constexpr std::size_t bitSpill = BITS % (sizeof(valueType) * size_);
bitSpill(B) == B % (SizeofValueType * size_(B))

\* static constexpr std::size_t spillMask = ~valueType{0} << bitSpill;
spillMask(B) ==
    ShL(Not({}, typeBits(SizeofValueType)), bitSpill(B), typeBits(SizeofValueType))

\* fixBack as a no-op
fixBackSkipped(d, B) == d

\* data_[size() - 1] &= spillMask;
fixBack(d, B) == [d EXCEPT ![size_(B) - 1] = @ \cap spillMask(B)]

\* Bits(valueType value) : data_{} { data_[0] = value; fixBack(); }
BitsFromWord(value, B) == fixBack([ZeroArray(size_(B)) EXCEPT ![0] = value], B)

\* void clear()
clear(d, B) == [i \in 0 .. (size_(B) - 1) |-> {}]

\* operator bool(): true iff some word is non-zero
ToBool(d, B) == \E i \in 0 .. (size_(B) - 1) : d[i] # {}

\* wide::bitNot / bitAnd / bitOr / bitXor
bitNot(d, n) == [i \in 0 .. (n - 1) |-> Not(d[i], typeBits(SizeofValueType))]
bitAnd(d, r, n) == [i \in 0 .. (n - 1) |-> d[i] \cap r[i]]
bitOr(d, r, n) == [i \in 0 .. (n - 1) |-> d[i] \cup r[i]]
bitXor(d, r, n) == [i \in 0 .. (n - 1) |-> Xor(d[i], r[i])]

\* operator~
OpNot(d, B) == fixBack(bitNot(d, size_(B)), B)

\* operator=(valueType value) { clear(); data_[0] = value; }
OpAssignWord(d, value, B) == [clear(d, B) EXCEPT ![0] = value]

\* operator<<= and operator<< : leftShift, then fixBack
OpShl(d, shift, B) == fixBack(leftShift(d, shift, size_(B), SizeofValueType).dest, B)

\* operator>>= and operator>> : rightShift only
OpShr(d, shift, B) == rightShift(d, shift, size_(B), SizeofValueType).dest

\* ------------------------------------------------------------ input sets
IntSizes == {1, 8}                       \* uint8_t and uintmax_t
Patterns(w) == {{}, {0}, {w - 1}, {0, w - 1}, AllOnes(w)}
ShiftAmounts(w, n) ==
    {0, 1, w - 1, w, w + 1} \cup {n * w + d : d \in (0 - 1) .. MaxOver}

\* a shift amount is passed as an Int
InIntRange(s, sz) == IF sz >= 4 THEN TRUE ELSE s < 2 ^ typeBits(sz)

Widths == {1, 12, 64, 100, 128}
\* 0, 1, 0xFFF, 0x1000, 2^63, ~0
Values == {{}, {0}, 0 .. 11, {12}, {63}, AllOnes(typeBits(SizeofValueType))}
BitsShifts == {0, 1, 40, 64, 128}

\* ------------------------------------------- specification: word arrays
InitBitsIdle ==
    /\ BITS = 1
    /\ constructed = FALSE
    /\ data_ = ZeroArray(1)
    /\ ret = ZeroArray(1)
    /\ hasRet = FALSE
    /\ ops = <<>>

InitWide ==
    /\ sizeofInt \in IntSizes
    /\ count \in 1 .. MaxCount
    /\ dest \in [0 .. (count - 1) -> Patterns(typeBits(sizeofInt))]
    /\ calls = <<>>
    /\ amounts = {}
    /\ InitBitsIdle

LeftShiftCall(s) ==
    /\ Len(calls) < MaxCalls
    /\ InIntRange(s, sizeofInt)
    /\ LET r == leftShift(dest, s, count, sizeofInt)
       IN  /\ dest' = r.dest
           /\ amounts' = r.amounts
    /\ calls' = Append(calls, [op |-> "leftShift", shift |-> s, before |-> dest])
    /\ UNCHANGED <<sizeofInt, count>>
    /\ UNCHANGED bitsVars

RightShiftCall(s) ==
    /\ Len(calls) < MaxCalls
    /\ InIntRange(s, sizeofInt)
    /\ LET r == rightShift(dest, s, count, sizeofInt)
       IN  /\ dest' = r.dest
           /\ amounts' = r.amounts
    /\ calls' = Append(calls, [op |-> "rightShift", shift |-> s, before |-> dest])
    /\ UNCHANGED <<sizeofInt, count>>
    /\ UNCHANGED bitsVars

NextWide ==
    \/ \E s \in ShiftAmounts(typeBits(sizeofInt), count) : LeftShiftCall(s)
    \/ \E s \in ShiftAmounts(typeBits(sizeofInt), count) : RightShiftCall(s)

SpecWide == InitWide /\ [][NextWide]_vars

\* ------------------------------------------------ properties: word arrays
\* the array read as one count*typeBits-bit integer, as its set of set bits
ArrayBits(d, n, w) == UNION {{i * w + b : b \in d[i]} : i \in 0 .. (n - 1)}

TotalBits == count * typeBits(sizeofInt)
LastCall == calls[Len(calls)]
PrevCall == calls[Len(calls) - 1]
Before(c) == ArrayBits(c.before, count, typeBits(sizeofInt))
Now == ArrayBits(dest, count, typeBits(sizeofInt))

\* C1: after leftShift(array, s, count) the array, read as one integer, is
\* (original * 2^s) mod 2^(count*w): every bit moves up by s positions, zeros
\* come in at the bottom and bits moved past the top are dropped.
C1_LeftShiftIsMultiplication ==
    (Len(calls) >= 1 /\ LastCall.op = "leftShift")
        => Now = {p + LastCall.shift : p \in Before(LastCall)} \cap AllOnes(TotalBits)

\* C2: after rightShift(array, s, count) the array, read as one integer, is
\* floor(original / 2^s): every bit moves down by s positions, zeros come in
\* at the top and bits moved below bit 0 are dropped.
C2_RightShiftIsDivision ==
    (Len(calls) >= 1 /\ LastCall.op = "rightShift")
        => Now = {p - LastCall.shift :
                     p \in {q \in Before(LastCall) : q >= LastCall.shift}}

\* C6: leftShift by s followed by rightShift by the same s <= count*w leaves
\* the original array with its top s bits cleared and all other bits intact.
C6_LossyRoundTrip ==
    (/\ Len(calls) >= 2
     /\ PrevCall.op = "leftShift"
     /\ LastCall.op = "rightShift"
     /\ PrevCall.shift = LastCall.shift
     /\ LastCall.shift <= TotalBits)
        => Now = {p \in Before(PrevCall) : p < TotalBits - LastCall.shift}

\* C7: a left or right shift by s >= count*w leaves every word zero.
C7_OversizedShiftClears ==
    (Len(calls) >= 1 /\ LastCall.shift >= TotalBits)
        => dest = ZeroArray(count)

C7_Witness ==
    /\ Len(calls) >= 1
    /\ LastCall.op = "leftShift"
    /\ LastCall.shift > TotalBits
    /\ count >= 2
    /\ \A i \in 0 .. (count - 1) : LastCall.before[i] # {}
    /\ dest = ZeroArray(count)

\* C9: every single-word shift or rotate a call executes uses an amount
\* strictly between 0 and the word width, and a call whose remaining
\* sub-word shift is 0 executes none.
C9_ShiftAmountsInRange ==
    /\ amounts \subseteq 1 .. (typeBits(sizeofInt) - 1)
    /\ (Len(calls) >= 1 /\ LastCall.shift % typeBits(sizeofInt) = 0)
          => amounts = {}

C9_Witness ==
    /\ Len(calls) = 2
    /\ count >= 2
    /\ PrevCall.shift = typeBits(sizeofInt)
    /\ LastCall.shift = typeBits(sizeofInt) + 1
    /\ amounts = {1}

\* ------------------------------------------------ specification: Bits<N>
InitWideIdle ==
    /\ sizeofInt = SizeofValueType
    /\ count = 1
    /\ dest = ZeroArray(1)
    /\ calls = <<>>
    /\ amounts = {}

Init ==
    /\ BITS \in Widths
    /\ constructed = FALSE
    /\ data_ = ZeroArray(size_(BITS))
    /\ ret = ZeroArray(size_(BITS))
    /\ hasRet = FALSE
    /\ ops = <<>>
    /\ InitWideIdle

Logged(name, v, s) ==
    Append(ops, [op |-> name, value |-> v, shift |-> s, before |-> data_])

\* a Bits argument passed by value: converted from a word, a copy of the
\* object itself, or the value a binary operator returned
Others ==
    {BitsFromWord(v, BITS) : v \in Values} \cup {data_}
        \cup (IF hasRet THEN {ret} ELSE {})

\* op changes the object in place
Mutate(name, v, s, new) ==
    /\ constructed
    /\ Len(ops) < MaxOps
    /\ data_' = new
    /\ ops' = Logged(name, v, s)
    /\ UNCHANGED <<BITS, constructed, ret, hasRet>>
    /\ UNCHANGED wideVars

\* op leaves the object alone and returns a new value
Return(name, v, s, new) ==
    /\ constructed
    /\ Len(ops) < MaxOps
    /\ ret' = new
    /\ hasRet' = TRUE
    /\ ops' = Logged(name, v, s)
    /\ UNCHANGED <<BITS, constructed, data_>>
    /\ UNCHANGED wideVars

Construct(value) ==
    /\ ~constructed
    /\ constructed' = TRUE
    /\ data_' = BitsFromWord(value, BITS)
    /\ ops' = Logged("construct", value, 0)
    /\ UNCHANGED <<BITS, ret, hasRet>>
    /\ UNCHANGED wideVars

AssignWord(value) == Mutate("assignWord", value, 0, OpAssignWord(data_, value, BITS))
Complement == Mutate("not", {}, 0, OpNot(data_, BITS))
AndAssign(other) == Mutate("andAssign", {}, 0, bitAnd(data_, other, size_(BITS)))
OrAssign(other) == Mutate("orAssign", {}, 0, bitOr(data_, other, size_(BITS)))
XorAssign(other) == Mutate("xorAssign", {}, 0, bitXor(data_, other, size_(BITS)))
ShlAssign(shift) == Mutate("shlAssign", {}, shift, OpShl(data_, shift, BITS))
ShrAssign(shift) == Mutate("shrAssign", {}, shift, OpShr(data_, shift, BITS))
And(other) == Return("and", {}, 0, bitAnd(other, data_, size_(BITS)))
Or(other) == Return("or", {}, 0, bitOr(other, data_, size_(BITS)))
XorOp(other) == Return("xor", {}, 0, bitXor(other, data_, size_(BITS)))
Shl(shift) == Return("shl", {}, shift, OpShl(data_, shift, BITS))
Shr(shift) == Return("shr", {}, shift, OpShr(data_, shift, BITS))

Next ==
    \/ \E v \in Values : Construct(v)
    \/ \E v \in Values : AssignWord(v)
    \/ Complement
    \/ \E o \in Others : AndAssign(o)
    \/ \E o \in Others : OrAssign(o)
    \/ \E o \in Others : XorAssign(o)
    \/ \E s \in BitsShifts : ShlAssign(s)
    \/ \E s \in BitsShifts : ShrAssign(s)
    \/ \E o \in Others : And(o)
    \/ \E o \in Others : Or(o)
    \/ \E o \in Others : XorOp(o)
    \/ \E s \in BitsShifts : Shl(s)
    \/ \E s \in BitsShifts : Shr(s)

Spec == Init /\ [][Next]_vars

\* --------------------------------------------------- properties: Bits<N>
WordBits == typeBits(SizeofValueType)
LastOp == ops[Len(ops)]

\* no bit of d at a position >= BITS is set
HighBitsZero(d) == ArrayBits(d, size_(BITS), WordBits) \subseteq AllOnes(BITS)

\* C3: after construction from a word and any sequence of public operations,
\* every bit at a position >= BITS of the object, and of every value a
\* binary operator returned, is zero.
C3_MaskingInvariant ==
    /\ constructed => HighBitsZero(data_)
    /\ hasRet => HighBitsZero(ret)

\* C4: a Bits<BITS> constructed from the word v holds v mod 2^BITS: word 0
\* is v with the bits at positions >= BITS cleared, higher words are zero.
C4_ConstructKeepsLowBits ==
    (Len(ops) >= 1 /\ LastOp.op = "construct")
        => data_ = [i \in 0 .. (size_(BITS) - 1) |->
                       IF i = 0 THEN LastOp.value \cap AllOnes(BITS) ELSE {}]

\* C5: ~ applied to a value constructed from a word complements the bits
\* below BITS and leaves the bits at positions >= BITS zero.
C5_ComplementWithinWidth ==
    (/\ Len(ops) = 2
     /\ ops[1].op = "construct"
     /\ ops[2].op = "not")
        => ArrayBits(data_, size_(BITS), WordBits)
             = AllOnes(BITS) \ ArrayBits(ops[2].before, size_(BITS), WordBits)

\* C8: a value constructed from the word 0 converts to false, one
\* constructed from a non-zero word converts to true.
C8_BoolOfConstructed ==
    (Len(ops) >= 1 /\ LastOp.op = "construct")
        => (ToBool(data_, BITS) <=> LastOp.value # {})

\* C10: assigning the word v to an existing object leaves it with the word
\* array of an object freshly constructed from v.
C10_AssignWordLikeConstruct ==
    (Len(ops) >= 1 /\ LastOp.op = "assignWord")
        => data_ = BitsFromWord(LastOp.value, BITS)

====
